---- MODULE Spec2Model ----
(***************************************************************************)
(* Light-curve cleaning of lcml: the per-series cleaner preprocessLc with  *)
(* its filter lcFilterBogus, the paged-store driver cleanLightCurves       *)
(* (lcml/pipeline/stage/preprocess.py), the in-memory driver cleanDataset  *)
(* (lcml/pipeline/preprocess.py) and the worker-pool generator             *)
(* multiprocessMapGenerator (lcml/utils/multiprocess.py).                  *)
(***************************************************************************)
EXTENDS Integers, Sequences, FiniteSets, TLC

(***************************************************************************)
(* Floats.  A float is a record [k, n]: k is its class ("fin", "inf",      *)
(* "ninf", "nan"); n names the number of a finite float and the OBJECT of  *)
(* a NaN.  Python's `x in aSet` is `x is y or x == y` for some y of the    *)
(* set, and NaN == NaN is false, so a NaN is in a set only as the very     *)
(* object the set holds.  On these records that is plain equality: equal   *)
(* finite or infinite floats are equal records, and two NaNs are equal     *)
(* records exactly when they are the same object.                          *)
(***************************************************************************)
Fin(x) == [k |-> "fin", n |-> x]
PosInf == [k |-> "inf", n |-> "inf"]
NegInf == [k |-> "ninf", n |-> "-inf"]
NaNObj(o) == [k |-> "nan", n |-> o]
IsNaN(v) == v.k = "nan"

\* a function on 1..n as the list (tuple) of its values
List(f) == f \o <<>>

\* the NaN an element read out of a numpy float64 array is: a fresh scalar
\* object, never the object a module-level set holds
ElemNaN == NaNObj("array element")
\* the singleton numpy.nan
NpNaN == NaNObj("np.nan")

\* v in removes / v not in removes, as Python evaluates it
PyIn(v, s) == v \in s

\* a number takes part in a reject-set as a value: a NaN sample is a bogus
\* sample whenever the set lists NaN, whichever object it is
Member(v, s) == v \in s \/ (IsNaN(v) /\ \E r \in s : IsNaN(r))

NON_FINITE_VALUES == {NpNaN, NaNObj("stage float('nan')"), PosInf, NegInf}
REMOVE_SET == {NaNObj("pipeline float('nan')"), PosInf, NegInf}

SUFFICIENT_LC_DATA == 80
DEFAULT_STD_LIMIT == 5
DEFAULT_ERROR_LIMIT == 3

DATA_BOGUS_REMOVED == "bogusRemoved"
DATA_OUTLIER_REMOVED == "outlierRemoved"
INSUFFICIENT_DATA_REASON == "insufficient at start"
BOGUS_DATA_REASON == "insufficient due to bogus data"
OUTLIERS_REASON == "insufficient due to statistical outliers"
\* Python's None where a reason (a string) is expected
NoReason == "None"
Reasons == {INSUFFICIENT_DATA_REASON, BOGUS_DATA_REASON, OUTLIERS_REASON}

(***************************************************************************)
(* lcFilterBogus: the list comprehension, then zip over its rows.         *)
(***************************************************************************)
RECURSIVE KeptFrom(_, _, _, _)
\* the indices i >= from, in order, the comprehension's condition keeps
KeptFrom(values, errors, removes, from) ==
    IF from > Len(values) THEN <<>>
    ELSE (IF ~PyIn(values[from], removes) /\ ~PyIn(errors[from], removes)
          THEN <<from>> ELSE <<>>)
         \o KeptFrom(values, errors, removes, from + 1)

Kept(values, errors, removes) == KeptFrom(values, errors, removes, 1)

\* zip over the unpacked rows: one tuple per column; of no rows, no column at all
ZipStar(rows) ==
    IF rows = <<>> THEN <<>>
    ELSE << List([j \in 1..Len(rows) |-> rows[j][1]]),
            List([j \in 1..Len(rows) |-> rows[j][2]]),
            List([j \in 1..Len(rows) |-> rows[j][3]]) >>

lcFilterBogus(mjds, values, errors, removes) ==
    LET kept == Kept(values, errors, removes)
        rows == List([j \in 1..Len(kept) |->
                    <<mjds[kept[j]], values[kept[j]], errors[kept[j]]>>])
    IN ZipStar(rows)


(***************************************************************************)
(* preprocess.remove_noise of the feets library, an external collaborator: *)
(* a sample is kept iff its error is below errorLimit times the mean error *)
(* and its magnitude lies within stdLimit standard deviations of the mean. *)
(* The statistics are abstracted to a table: how many deviations a         *)
(* magnitude lies from the mean of its series, and how many mean errors an *)
(* error is.  With a NaN in the series the mean is NaN and no comparison   *)
(* holds.                                                                  *)
(***************************************************************************)
StdsFromMean(v) == IF v.n \in {"99.9", "z(99.9)"} THEN 9 ELSE 0
MeanErrors(v) == IF v.n \in {"9.0", "z(9.0)"} THEN 9 ELSE 1
HasNaN(a) == \E i \in 1..Len(a) : IsNaN(a[i])

remove_noise(tm, mag, err, errorLimit, stdLimit) ==
    LET finite == ~HasNaN(mag) /\ ~HasNaN(err)
        ok(i) == /\ finite
                 /\ MeanErrors(err[i]) < errorLimit
                 /\ StdsFromMean(mag[i]) < stdLimit
        kept == SelectSeq([i \in 1..Len(tm) |-> i], ok)
    IN << List([j \in 1..Len(kept) |-> tm[kept[j]]]),
          List([j \in 1..Len(kept) |-> mag[kept[j]]]),
          List([j \in 1..Len(kept) |-> err[kept[j]]]) >>

(***************************************************************************)
(* preprocessLc.  The result is what the call does: "return" with the      *)
(* tuple (lc, issue, removedCounts), lc = <<>> standing for None, or       *)
(* "raise" with the exception; calls lists the stages the call applied.    *)
(***************************************************************************)
Returned(lc, issue, bogus, outlier, calls) ==
    [ret |-> "return", lc |-> lc, issue |-> issue,
     removedCounts |-> [bogusRemoved |-> bogus, outlierRemoved |-> outlier],
     calls |-> calls, exc |-> "None"]

Raised(exc, bogus, outlier, calls) ==
    [ret |-> "raise", lc |-> <<>>, issue |-> NoReason,
     removedCounts |-> [bogusRemoved |-> bogus, outlierRemoved |-> outlier],
     calls |-> calls, exc |-> exc]

\* the rest of preprocessLc with the outliers counted from the raw length
AfterInitialCheckOutliersFromRaw(timeData, magData, errorData, removes, stdLimit, errorLimit) ==
    LET cols == lcFilterBogus(timeData, magData, errorData, removes)
    IN  IF Len(cols) # 3
        THEN Raised("ValueError", 0, 0, <<"lcFilterBogus">>)
        ELSE
        LET tm == cols[1]
            bogus == Len(timeData) - Len(tm)
        IN  IF Len(tm) < SUFFICIENT_LC_DATA
            THEN Returned(<<>>, BOGUS_DATA_REASON, bogus, 0, <<"lcFilterBogus">>)
            ELSE
            LET out == remove_noise(tm, cols[2], cols[3], errorLimit, stdLimit)
                outlier == Len(timeData) - Len(out[1])
                both == <<"lcFilterBogus", "remove_noise">>
            IN  IF Len(out[1]) < SUFFICIENT_LC_DATA
                THEN Returned(<<>>, OUTLIERS_REASON, bogus, outlier, both)
                ELSE Returned(out, NoReason, bogus, outlier, both)

\* the rest of preprocessLc once the initial check has passed
AfterInitialCheck(timeData, magData, errorData, removes, stdLimit, errorLimit) ==
    LET cols == lcFilterBogus(timeData, magData, errorData, removes)
    IN  \* tm, mag, err = <the zip>: three names need three columns
        IF Len(cols) # 3
        THEN Raised("ValueError", 0, 0, <<"lcFilterBogus">>)
        ELSE
        LET tm == cols[1]
            bogus == Len(timeData) - Len(tm)
        IN  IF Len(tm) < SUFFICIENT_LC_DATA
            THEN Returned(<<>>, BOGUS_DATA_REASON, bogus, 0, <<"lcFilterBogus">>)
            ELSE
            LET out == remove_noise(tm, cols[2], cols[3], errorLimit, stdLimit)
                outlier == Len(tm) - Len(out[1])
                both == <<"lcFilterBogus", "remove_noise">>
            IN  IF Len(out[1]) < SUFFICIENT_LC_DATA
                THEN Returned(<<>>, OUTLIERS_REASON, bogus, outlier, both)
                ELSE Returned(out, NoReason, bogus, outlier, both)

\* preprocessLc without its initial length check (lines 50-51 left out)
preprocessLcNoInitialCheck(timeData, magData, errorData, removes, stdLimit, errorLimit) ==
    AfterInitialCheck(timeData, magData, errorData, removes, stdLimit, errorLimit)

preprocessLc(timeData, magData, errorData, removes, stdLimit, errorLimit) ==
    IF Len(timeData) < SUFFICIENT_LC_DATA
    THEN Returned(<<>>, INSUFFICIENT_DATA_REASON, 0, 0, <<>>)
    ELSE AfterInitialCheck(timeData, magData, errorData, removes,
                           stdLimit, errorLimit)

\* preprocessLc of lcml/pipeline/preprocess.py, the same code but for its logging
preprocessLc_pipeline(timeData, magData, errorData, remove, stdLimit, errorLimit) ==
    preprocessLc(timeData, magData, errorData, remove, stdLimit, errorLimit)

(***************************************************************************)
(* Serialization.  A blob is an opaque byte string that determines the     *)
(* array; it is represented by the array's run-length encoding, which like *)
(* pickle is one-to-one on arrays.  Deserializing builds a new float64     *)
(* array: a NaN read out of it is a new object.                            *)
(***************************************************************************)
RECURSIVE RunEnd(_, _)
\* the last index of the run of equal elements that starts at i
RunEnd(a, i) ==
    IF i < Len(a) /\ a[i + 1] = a[i] THEN RunEnd(a, i + 1) ELSE i

RECURSIVE RunsFrom(_, _)
RunsFrom(a, i) ==
    IF i > Len(a) THEN <<>>
    ELSE LET j == RunEnd(a, i)
         IN <<[v |-> a[i], c |-> j - i + 1]>> \o RunsFrom(a, j + 1)

serArray(a) == RunsFrom(a, 1)

serLc(times, mags, errors) == <<serArray(times), serArray(mags), serArray(errors)>>

RECURSIVE Expand(_)
Expand(b) ==
    IF b = <<>> THEN <<>>
    ELSE [x \in 1..b[1].c |-> b[1].v] \o Expand(Tail(b))

AsFloat64(v) == IF IsNaN(v) THEN ElemNaN ELSE v

deserArray(binStr) ==
    LET a == Expand(binStr) IN List([x \in 1..Len(a) |-> AsFloat64(a[x])])

deserLc(times, mags, errors) == <<deserArray(times), deserArray(mags), deserArray(errors)>>


(***************************************************************************)
(* Bounds of the model and the series the inputs are built from.           *)
(***************************************************************************)
\* rows of a raw table / series of an in-memory dataset
MaxRows == 2
\* finite limits 0..MaxLimit, besides float("inf")
MaxLimit == 1
\* commit frequencies 1..MaxFreq
MaxFreq == 2
\* the batch scenario: LongRows accepted series, a commit every LongFreq
LongRows == 125
LongFreq == 50

Rep(v, n) == List([x \in 1..n |-> v])
T0 == Fin("53000.0")
Mag == Fin("12.5")
FarMag == Fin("99.9")
Sentinel == Fin("-99.0")
Err == Fin("0.1")
BigErr == Fin("9.0")
Lc(t, m, e) == [times |-> t, mags |-> m, errors |-> e]
Min == SUFFICIENT_LC_DATA

\* exactly minLength clean samples
Good == Lc(Rep(T0, Min), Rep(Mag, Min), Rep(Err, Min))
\* one sample short, with an infinite and a far magnitude among them
Short == Lc(Rep(T0, Min - 1),
            <<PosInf, FarMag>> \o Rep(Mag, Min - 3), Rep(Err, Min - 1))
\* minLength samples, one of them with an infinite error
OneBogus == Lc(Rep(T0, Min), Rep(Mag, Min), Rep(Err, Min - 1) \o <<NegInf>>)
\* minLength samples, each with an infinite magnitude or an infinite error
AllBogus == Lc(Rep(T0, Min),
               Rep(PosInf, Min \div 2) \o Rep(Mag, Min - Min \div 2),
               Rep(Err, Min \div 2) \o Rep(PosInf, Min - Min \div 2))
\* minLength samples, one of them a far outlier
OneOutlier == Lc(Rep(T0, Min), <<FarMag>> \o Rep(Mag, Min - 1), Rep(Err, Min))
\* minLength good samples and three more: an infinite error, a large error,
\* the survey's bogus-magnitude sentinel
Mixed == Lc(Rep(T0, Min + 3),
            Rep(Mag, Min + 2) \o <<Sentinel>>,
            <<PosInf, BigErr>> \o Rep(Err, Min + 1))
\* minLength good samples and one whose magnitude is NaN
WithNaN == Lc(Rep(T0, Min + 1), Rep(Mag, Min) \o <<NpNaN>>, Rep(Err, Min + 1))

Kinds == <<Good, Short, OneBogus, AllBogus, OneOutlier, Mixed, WithNaN>>
KindLabels == <<"RRLYR", "CEP", "EB", "LPV", "DSCT", "T2CEP", "ACEP">>

RECURSIVE SeqsUpTo(_, _)
\* the sequences over S of length at most n
SeqsUpTo(S, n) ==
    IF n = 0 THEN {<<>>}
    ELSE LET shorter == SeqsUpTo(S, n - 1)
         IN shorter \cup {Append(q, x) : q \in shorter, x \in S}

IdOf(j) == 1000 + j

\* the raw row of a series: (id, label, timesBlob, magsBlob, errorsBlob)
RawRow(j, kind) ==
    LET b == serLc(Kinds[kind].times, Kinds[kind].mags, Kinds[kind].errors)
    IN <<IdOf(j), KindLabels[kind], b[1], b[2], b[3]>>

\* the raw tables: rows in the order of their ids
RawTables ==
    {[j \in 1..Len(ks) |-> RawRow(j, ks[j])] :
        ks \in SeqsUpTo(1..Len(Kinds), MaxRows)}
LongTable == [j \in 1..LongRows |-> RawRow(j, 1)]

\* a row left in the clean table by an earlier cleaning, under the first id
StaleRow == <<IdOf(1), "stale", serArray(<<T0>>), serArray(<<Mag>>), serArray(<<Err>>)>>

\* params["filter"]: a collection, or None
Collection(S) == [isNone |-> FALSE, items |-> S]
PyNone == [isNone |-> TRUE, items |-> {}]
\* the params dicts: "filter" is optional, "transform" is always read
ParamsDicts ==
    {[transform |-> tr] : tr \in BOOLEAN}
    \cup {[transform |-> tr, filter |-> f] :
            tr \in BOOLEAN, f \in {Collection({}), Collection({Sentinel}), PyNone}}
INF == [finite |-> FALSE, n |-> 0]
Finite(k) == [finite |-> TRUE, n |-> k]
Limits == {INF} \cup {Finite(k) : k \in 0..MaxLimit}


(***************************************************************************)
(* State of one call of cleanLightCurves and of the store it works on.     *)
(***************************************************************************)
VARIABLES
    params,             \* the params dict
    commitFrequency,    \* dbParams["commitFrequency"]
    limit,              \* the limit argument
    raw,                \* the raw table, rows in id order
    clean,              \* the clean table as committed (durable)
    cleanAtStart,       \* the clean table as the first call found it
    staged,             \* rows inserted in the open transaction, uncommitted
    pc,                 \* "start", "loop", "flush", "done", "raised"
    removes, stdLimit, errorLimit, totalLcs,
    fetched,            \* rows the paging iterator has yielded; i = fetched - 1
    shortIssueCount, bogusIssueCount, outlierIssueCount, insertCount,
    commitLog,          \* the commits of this call, in order
    last,               \* the latest call of preprocessLc: its row and result
    summary,            \* the figures of the final log lines
    exc,                \* the exception that ended the call, or "None"
    points,             \* the points of the series handed to preprocessLc so
                        \* far, and what the calls reported of them
    runs                \* calls of cleanLightCurves started so far

clVars == <<params, commitFrequency, limit, raw, clean, cleanAtStart, staged, pc, removes,
            stdLimit, errorLimit, totalLcs, fetched, shortIssueCount,
            bogusIssueCount, outlierIssueCount, insertCount, commitLog, last,
            summary, exc, points, runs>>

\* lcFilterBogus called on its own: the arguments and what it returned
VARIABLES fArgs, fPc, fOut
fVars == <<fArgs, fPc, fOut>>

\* one call of cleanDataset
VARIABLES
    dsArgs,         \* labels, times, mags, errors and the remove argument
    dsPc,           \* "idle", "start", "loop", "done", "raised"
    rm,             \* the set handed to preprocessLc
    dsI,            \* iterations of the loop completed
    dsShortIssueCount, dsBogusIssueCount, dsOutlierIssueCount,
    _classLabel, _times, _magnitudes, _errors,
    dsLast,         \* the latest call of preprocessLc
    dsSummary

dsVars == <<dsArgs, dsPc, rm, dsI, dsShortIssueCount, dsBogusIssueCount,
            dsOutlierIssueCount, _classLabel, _times, _magnitudes, _errors,
            dsLast, dsSummary>>

\* one call of multiprocessMapGenerator, its pool and its consumer
VARIABLES
    jobArgs,            \* the argument tuples, one per job
    reportFrequency,
    mpPc,               \* "idle", "start", "next" (inside the pool's iterator),
                        \* "yield" (suspended at the yield), "returned"
    mpTodo,             \* jobs no worker has completed yet
    mpQueue,            \* results of completed jobs the iterator has not
                        \* handed out yet, in completion order
    mpI,                \* i
    mpYielded,          \* what the consumer has received, in order
    mpLog               \* the log lines, in order

mpVars == <<jobArgs, reportFrequency, mpPc, mpTodo, mpQueue, mpI, mpYielded, mpLog>>

\* what a call of cleanLightCurves leaves alone / of cleanDataset / of the
\* filter / of the generator
othersOfClean == <<fVars, dsVars, mpVars>>
othersOfDataset == <<clVars, fVars, mpVars>>
othersOfFilter == <<clVars, dsVars, mpVars>>
othersOfMap == <<clVars, fVars, dsVars>>

NoCall == [row |-> 0, inLen |-> 0, ret |-> "none", issue |-> NoReason,
           removedCounts |-> [bogusRemoved |-> 0, outlierRemoved |-> 0],
           calls |-> <<>>, exc |-> "None", outLen |-> 0]
CallOf(row, inLen, res) ==
    [row |-> row, inLen |-> inLen, ret |-> res.ret, issue |-> res.issue,
     removedCounts |-> res.removedCounts, calls |-> res.calls,
     exc |-> res.exc,
     outLen |-> IF res.lc = <<>> THEN 0 ELSE Len(res.lc[1])]
NoSummary == [emitted |-> FALSE, total |-> 0, pass |-> 0, short |-> 0,
              bogus |-> 0, outlier |-> 0]
NoPoints == [examined |-> 0, bogusRemoved |-> 0, outlierRemoved |-> 0,
             wholesale |-> 0]
\* the points after a call of preprocessLc on a series of inLen samples: the
\* removedCounts it returned and, of a series it rejected, the samples that
\* were left when it was rejected; a call that raised reported nothing
PointsAfter(p, inLen, res) ==
    LET b == res.removedCounts[DATA_BOGUS_REMOVED]
        o == res.removedCounts[DATA_OUTLIER_REMOVED]
    IN  IF res.ret # "return" THEN [p EXCEPT !.examined = @ + inLen]
        ELSE [examined |-> p.examined + inLen,
              bogusRemoved |-> p.bogusRemoved + b,
              outlierRemoved |-> p.outlierRemoved + o,
              wholesale |-> p.wholesale
                            + (IF res.lc = <<>> THEN inLen - b - o ELSE 0)]

\* the locals of a call that has not run its first statement
Fresh ==
    /\ pc = "start" /\ removes = {} /\ stdLimit = 0 /\ errorLimit = 0
    /\ totalLcs = 0 /\ fetched = 0 /\ shortIssueCount = 0
    /\ bogusIssueCount = 0 /\ outlierIssueCount = 0 /\ insertCount = 0
    /\ commitLog = <<>> /\ last = NoCall /\ summary = NoSummary
    /\ exc = "None" /\ staged = <<>> /\ points = NoPoints

InitClean ==
    /\ params \in ParamsDicts
    /\ limit \in Limits
    /\ \/ raw \in RawTables /\ commitFrequency \in 1..MaxFreq
       \/ raw = LongTable /\ commitFrequency = LongFreq
          /\ params = [transform |-> FALSE] /\ limit = INF
    /\ clean \in {{}, {StaleRow}}
    /\ cleanAtStart = clean
    /\ runs = 1
    /\ Fresh

\* dict.get(key, default) of the two numeric options, which no caller of this
\* model sets
Get(d, key, default) == IF key \in DOMAIN d THEN d[key] ELSE default

\* INSERT OR REPLACE INTO <clean table>: the row of that id, if any, gives way
InsertOrReplace(table, row) == {r \in table : r[1] # row[1]} \cup {row}

RECURSIVE Apply(_, _)
\* the table after the statements of a transaction, in order
Apply(table, rows) ==
    IF rows = <<>> THEN table
    ELSE Apply(InsertOrReplace(table, Head(rows)), Tail(rows))

\* totalLcs: the row count, and max(totalLcs, limit) under a finite limit
TotalLcs(count, lim) ==
    IF lim.finite THEN (IF count > lim.n THEN count ELSE lim.n) ELSE count

\* lines 86-108, up to the loop
Setup ==
    /\ pc = "start"
    /\ IF "filter" \in DOMAIN params /\ params.filter.isNone
       THEN \* set(None)
            /\ pc' = "raised" /\ exc' = "TypeError"
            /\ UNCHANGED <<removes, stdLimit, errorLimit, totalLcs>>
       ELSE /\ removes' = (IF "filter" \in DOMAIN params
                           THEN params.filter.items ELSE {})
                          \cup NON_FINITE_VALUES
            /\ stdLimit' = Get(params, "stdLimit", DEFAULT_STD_LIMIT)
            /\ errorLimit' = Get(params, "errorLimit", DEFAULT_ERROR_LIMIT)
            /\ totalLcs' = TotalLcs(Len(raw), limit)
            /\ pc' = "loop" /\ UNCHANGED exc
    /\ UNCHANGED othersOfClean
    /\ UNCHANGED <<cleanAtStart, params, commitFrequency, limit, raw, clean, staged, fetched,
                   shortIssueCount, bogusIssueCount, outlierIssueCount,
                   insertCount, commitLog, last, summary, points, runs>>

(***************************************************************************)
(* _transformArray: StandardScaler fitted on the one array and applied to  *)
(* it.  The scaler is sklearn's, an external collaborator: it rescales a   *)
(* finite array, refuses an infinity, and refuses or passes on a NaN       *)
(* according to its version (nanOk).                                       *)
(***************************************************************************)
Scaled(v) == IF IsNaN(v) THEN ElemNaN ELSE Fin("z(" \o v.n \o ")")
_transformArray(a, nanOk) ==
    IF (\E x \in 1..Len(a) : a[x].k \in {"inf", "ninf"}) \/ (HasNaN(a) /\ ~nanOk)
    THEN [ok |-> FALSE, a |-> <<>>]
    ELSE [ok |-> TRUE, a |-> List([x \in 1..Len(a) |-> Scaled(a[x])])]

\* i >= limit
AtLimit(idx, lim) == lim.finite /\ idx >= lim.n

\* the insert keyed by the loop index i in place of the record id r[0]
InsertArgsByIndex(r, idx, lc) ==
    LET b == serLc(lc[1], lc[2], lc[3]) IN <<idx, r[2], b[1], b[2], b[3]>>

\* the insert with the label column left blank in place of r[1]
InsertArgsBlankLabel(r, idx, lc) ==
    LET b == serLc(lc[1], lc[2], lc[3]) IN <<r[1], "", b[1], b[2], b[3]>>

\* args = (r[0], r[1]) + serLc(*lc)
InsertArgs(r, idx, lc) ==
    LET b == serLc(lc[1], lc[2], lc[3]) IN <<r[1], r[2], b[1], b[2], b[3]>>

\* a rejection whose reason no branch takes up
IssueIsNever(issue, reason) == FALSE

\* issue == <reason>, the test of a branch of the elif chain
IssueIs(issue, reason) == issue = reason

\* the periodic commit taken one insert after the multiple
CommitDueLate(count, frequency) == count % frequency = 1 % frequency

\* a commit after every insert, whatever the frequency
CommitDueEveryInsert(count, frequency) == TRUE

\* insertCount % commitFrequency == 0
CommitDue(count, frequency) == count % frequency = 0

\* one iteration of the loop, lines 109-134
Iterate ==
    /\ pc = "loop" /\ fetched < Len(raw)
    /\ \E nanOk \in BOOLEAN :
      \* each value of the iteration is bound once: r, the arrays, the result
      \E r \in {raw[fetched + 1]} :
      \E lcIn \in {deserLc(r[3], r[4], r[5])} :
      \E mags \in {IF params.transform THEN _transformArray(lcIn[2], nanOk)
                    ELSE [ok |-> TRUE, a |-> lcIn[2]]} :
      \E errors \in {IF params.transform /\ mags.ok
                      THEN _transformArray(lcIn[3], nanOk)
                      ELSE [ok |-> TRUE, a |-> lcIn[3]]} :
      \E res \in {IF mags.ok /\ errors.ok
                   THEN preprocessLc(lcIn[1], mags.a, errors.a, removes,
                                     stdLimit, errorLimit)
                   ELSE Raised("ValueError", 0, 0, <<>>)} :
        LET idx == fetched
            scaled == mags.ok /\ errors.ok
            returned == scaled /\ res.ret = "return"
            accepted == returned /\ res.lc # <<>>
            badReason == returned /\ ~accepted /\ res.issue \notin Reasons
            raising == ~returned \/ badReason
            count == IF accepted THEN insertCount + 1 ELSE insertCount
            due == accepted /\ CommitDue(count, commitFrequency)
            pending == IF accepted
                       THEN Append(staged, InsertArgs(r, idx, res.lc))
                       ELSE staged
            bump(reason) == IF returned /\ ~accepted /\ IssueIs(res.issue, reason)
                            THEN 1 ELSE 0
        IN  /\ fetched' = fetched + 1
            /\ last' = IF scaled THEN CallOf(fetched + 1, Len(lcIn[1]), res)
                       ELSE last
            /\ points' = IF scaled THEN PointsAfter(points, Len(lcIn[1]), res)
                         ELSE points
            /\ insertCount' = count
            /\ staged' = IF due THEN <<>> ELSE pending
            /\ clean' = IF due THEN Apply(clean, pending) ELSE clean
            /\ commitLog' = IF due
                            THEN Append(commitLog, [at |-> count,
                                    fetched |-> fetched + 1, where |-> "loop"])
                            ELSE commitLog
            /\ shortIssueCount' = shortIssueCount + bump(INSUFFICIENT_DATA_REASON)
            /\ bogusIssueCount' = bogusIssueCount + bump(BOGUS_DATA_REASON)
            /\ outlierIssueCount' = outlierIssueCount + bump(OUTLIERS_REASON)
            /\ exc' = IF raising THEN "ValueError" ELSE exc
            /\ pc' = IF raising THEN "raised"
                     ELSE IF AtLimit(idx, limit) THEN "flush" ELSE "loop"
    /\ UNCHANGED othersOfClean
    /\ UNCHANGED <<cleanAtStart, params, commitFrequency, limit, raw, removes, stdLimit,
                   errorLimit, totalLcs, summary, runs>>

\* after the loop, lines 136-146: the commit, the close, the summary
Finish ==
    /\ pc = "flush" \/ (pc = "loop" /\ fetched = Len(raw))
    /\ clean' = Apply(clean, staged)
    /\ staged' = <<>>
    /\ commitLog' = Append(commitLog, [at |-> insertCount, fetched |-> fetched,
                                       where |-> "flush"])
    /\ summary' = [emitted |-> TRUE, total |-> totalLcs, pass |-> insertCount,
                   short |-> shortIssueCount, bogus |-> bogusIssueCount,
                   outlier |-> outlierIssueCount]
    /\ pc' = "done"
    /\ UNCHANGED othersOfClean
    /\ UNCHANGED <<cleanAtStart, params, commitFrequency, limit, raw, removes, stdLimit,
                   errorLimit, totalLcs, fetched, shortIssueCount,
                   bogusIssueCount, outlierIssueCount, insertCount, last, exc,
                   points, runs>>

\* calls of cleanLightCurves over the same store, the first included
MaxRuns == 2

\* the store raises inside the loop, at the cursor's next read: the exception
\* leaves cleanLightCurves, whose commit and close are never reached
StoreError ==
    /\ pc = "loop"
    /\ pc' = "raised" /\ exc' = "IOError"
    /\ UNCHANGED othersOfClean
    /\ UNCHANGED <<cleanAtStart, params, commitFrequency, limit, raw, clean,
                   staged, removes, stdLimit, errorLimit, totalLcs, fetched,
                   shortIssueCount, bogusIssueCount, outlierIssueCount,
                   insertCount, commitLog, last, summary, points, runs>>

\* cleanLightCurves is called again after an aborted call, with the same
\* arguments: a new connection, the aborted transaction's rows are gone
Rerun ==
    /\ pc = "raised" /\ runs < MaxRuns
    /\ runs' = runs + 1
    /\ pc' = "start" /\ removes' = {} /\ stdLimit' = 0 /\ errorLimit' = 0
    /\ totalLcs' = 0 /\ fetched' = 0 /\ shortIssueCount' = 0
    /\ bogusIssueCount' = 0 /\ outlierIssueCount' = 0 /\ insertCount' = 0
    /\ commitLog' = <<>> /\ last' = NoCall /\ summary' = NoSummary
    /\ exc' = "None" /\ staged' = <<>> /\ points' = NoPoints
    /\ UNCHANGED othersOfClean
    /\ UNCHANGED <<cleanAtStart, params, commitFrequency, limit, raw, clean>>

(***************************************************************************)
(* lcFilterBogus called on its own: the arguments and what it returned.    *)
(***************************************************************************)

\* samples of a call: lists up to this length
MaxLen == 3
TimeAt(j) == Fin(ToString(53000 + j))
FilterInputs ==
    {[mjds |-> List([j \in 1..Len(q) |-> TimeAt(j)]),
      values |-> List([j \in 1..Len(q) |-> q[j][1]]),
      errors |-> List([j \in 1..Len(q) |-> q[j][2]]),
      removes |-> R] :
        q \in SeqsUpTo({Mag, Sentinel, PosInf, ElemNaN, NpNaN}
                       \X {Err, NegInf, ElemNaN}, MaxLen),
        R \in {{}, NON_FINITE_VALUES, REMOVE_SET \cup {Sentinel}}}
FilterIdle == fArgs = [mjds |-> <<>>, values |-> <<>>, errors |-> <<>>,
                       removes |-> {}] /\ fPc = "idle" /\ fOut = <<>>
InitFilterCall == fArgs \in FilterInputs /\ fPc = "call" /\ fOut = <<>>

CallFilter ==
    /\ fPc = "call"
    /\ fOut' = lcFilterBogus(fArgs.mjds, fArgs.values, fArgs.errors, fArgs.removes)
    /\ fPc' = "returned"
    /\ UNCHANGED fArgs
    /\ UNCHANGED othersOfFilter

\* the samples of a result of lcFilterBogus, as (time, value, error) triples
Samples(cols) ==
    IF cols = <<>> THEN <<>>
    ELSE List([j \in 1..Len(cols[1]) |-> <<cols[1][j], cols[2][j], cols[3][j]>>])

(***************************************************************************)
(* State of one call of cleanDataset (lcml/pipeline/preprocess.py).        *)
(***************************************************************************)

DatasetFresh ==
    /\ rm = {} /\ dsI = 0 /\ dsShortIssueCount = 0 /\ dsBogusIssueCount = 0
    /\ dsOutlierIssueCount = 0 /\ _classLabel = <<>> /\ _times = <<>>
    /\ _magnitudes = <<>> /\ _errors = <<>> /\ dsLast = NoCall
    /\ dsSummary = NoSummary
DatasetIdle ==
    /\ dsArgs = [labels |-> <<>>, times |-> <<>>, mags |-> <<>>,
                 errors |-> <<>>, remove |-> PyNone, given |-> FALSE]
    /\ dsPc = "idle" /\ DatasetFresh

\* the remove argument: left out (the default REMOVE_SET applies) or given
RemoveArgs ==
    {[given |-> FALSE, remove |-> Collection(REMOVE_SET)]}
    \cup {[given |-> TRUE, remove |-> x] :
            x \in {PyNone, Collection({}), Collection({Sentinel}),
                   Collection({Sentinel} \cup REMOVE_SET)}}
InitDataset ==
    /\ \E ks \in SeqsUpTo(1..Len(Kinds), MaxRows), ra \in RemoveArgs :
          dsArgs = [labels |-> List([j \in 1..Len(ks) |-> KindLabels[ks[j]]]),
                    times |-> List([j \in 1..Len(ks) |-> Kinds[ks[j]].times]),
                    mags |-> List([j \in 1..Len(ks) |-> Kinds[ks[j]].mags]),
                    errors |-> List([j \in 1..Len(ks) |-> Kinds[ks[j]].errors]),
                    remove |-> ra.remove, given |-> ra.given]
    /\ dsPc = "start" /\ DatasetFresh

\* rm = remove if remove else set(): None and the empty set are falsy
Rm(remove) ==
    IF remove.isNone \/ remove.items = {} THEN {} ELSE remove.items

\* lines 77-84
DsSetup ==
    /\ dsPc = "start"
    /\ rm' = Rm(dsArgs.remove)
    /\ dsPc' = "loop"
    /\ UNCHANGED othersOfDataset
    /\ UNCHANGED <<dsArgs, dsI, dsShortIssueCount, dsBogusIssueCount,
                   dsOutlierIssueCount, _classLabel, _times, _magnitudes,
                   _errors, dsLast, dsSummary>>

\* one iteration of the loop, lines 85-101
DsIterate ==
    /\ dsPc = "loop" /\ dsI < Len(dsArgs.labels)
    /\ \E k \in {dsI + 1} :
       \E res \in {preprocessLc_pipeline(dsArgs.times[k], dsArgs.mags[k],
                        dsArgs.errors[k], rm, DEFAULT_STD_LIMIT,
                        DEFAULT_ERROR_LIMIT)} :
        LET returned == res.ret = "return"
            accepted == returned /\ res.lc # <<>>
            badReason == returned /\ ~accepted /\ res.issue \notin Reasons
            bump(reason) == IF returned /\ ~accepted /\ IssueIs(res.issue, reason)
                            THEN 1 ELSE 0
        IN  /\ dsLast' = CallOf(k, Len(dsArgs.times[k]), res)
            /\ _classLabel' = IF accepted THEN Append(_classLabel, dsArgs.labels[k])
                              ELSE _classLabel
            /\ _times' = IF accepted THEN Append(_times, res.lc[1]) ELSE _times
            /\ _magnitudes' = IF accepted THEN Append(_magnitudes, res.lc[2])
                              ELSE _magnitudes
            /\ _errors' = IF accepted THEN Append(_errors, res.lc[3]) ELSE _errors
            /\ dsShortIssueCount' = dsShortIssueCount + bump(INSUFFICIENT_DATA_REASON)
            /\ dsBogusIssueCount' = dsBogusIssueCount + bump(BOGUS_DATA_REASON)
            /\ dsOutlierIssueCount' = dsOutlierIssueCount + bump(OUTLIERS_REASON)
            /\ dsPc' = IF ~returned \/ badReason THEN "raised" ELSE "loop"
            /\ dsI' = IF ~returned \/ badReason THEN dsI ELSE dsI + 1
    /\ UNCHANGED othersOfDataset
    /\ UNCHANGED <<dsArgs, rm, dsSummary>>

\* after the loop, lines 103-110: the summary and the return
DsFinish ==
    /\ dsPc = "loop" /\ dsI = Len(dsArgs.labels)
    /\ dsSummary' = [emitted |-> TRUE, total |-> Len(dsArgs.labels),
                     pass |-> Len(_classLabel), short |-> dsShortIssueCount,
                     bogus |-> dsBogusIssueCount, outlier |-> dsOutlierIssueCount]
    /\ dsPc' = "done"
    /\ UNCHANGED othersOfDataset
    /\ UNCHANGED <<dsArgs, rm, dsI, dsShortIssueCount, dsBogusIssueCount,
                   dsOutlierIssueCount, _classLabel, _times, _magnitudes,
                   _errors, dsLast>>

(***************************************************************************)
(* multiprocessMapGenerator: a generator over Pool.imap_unordered.  The    *)
(* workers complete the jobs in any order, each result joining the pool's  *)
(* result queue; the generator takes them off the queue one at a time,     *)
(* yields, and runs on (the report, the next result) when the consumer     *)
(* asks for the next item.                                                 *)
(***************************************************************************)

\* jobs 0..MaxJobs, report frequencies 1..MaxReport
MaxJobs == 3
MaxReport == 2

\* func, a pure function of the job's arguments
func(args) == <<"result", args>>

MapIdle ==
    /\ jobArgs = <<>> /\ reportFrequency = 1 /\ mpPc = "idle" /\ mpTodo = {}
    /\ mpQueue = <<>> /\ mpI = 0 /\ mpYielded = <<>> /\ mpLog = <<>>

InitMapCall ==
    /\ \E n \in 0..MaxJobs : jobArgs = [j \in 1..n |-> <<"uid", j>>]
    /\ reportFrequency \in 1..MaxReport
    /\ mpPc = "start" /\ mpTodo = {} /\ mpQueue = <<>> /\ mpI = 0
    /\ mpYielded = <<>> /\ mpLog = <<>>

\* lines 21-23: the pool is created, i = -1, the jobs are handed to the pool
MpStart ==
    /\ mpPc = "start"
    /\ mpI' = -1
    /\ mpTodo' = 1..Len(jobArgs)
    /\ mpPc' = "next"
    /\ UNCHANGED <<jobArgs, reportFrequency, mpQueue, mpYielded, mpLog>>
    /\ UNCHANGED othersOfMap

\* a worker of the pool completes a job, whichever: its result is queued
WorkerCompletes ==
    /\ mpPc \in {"next", "yield"}
    /\ \E j \in mpTodo :
          /\ mpTodo' = mpTodo \ {j}
          /\ mpQueue' = Append(mpQueue, func(jobArgs[j]))
    /\ UNCHANGED <<jobArgs, reportFrequency, mpPc, mpI, mpYielded, mpLog>>
    /\ UNCHANGED othersOfMap

\* lines 23-24: the iterator hands out the next completed result, enumerate
\* counts it (from 1), and the generator yields it
MpYield ==
    /\ mpPc = "next" /\ mpQueue # <<>>
    /\ mpI' = Len(mpYielded) + 1
    /\ mpYielded' = Append(mpYielded, Head(mpQueue))
    /\ mpQueue' = Tail(mpQueue)
    /\ mpPc' = "yield"
    /\ UNCHANGED <<jobArgs, reportFrequency, mpTodo, mpLog>>
    /\ UNCHANGED othersOfMap

\* lines 25-26: the consumer asks for the next item; the generator resumes
\* after the yield
MpResume ==
    /\ mpPc = "yield"
    /\ mpLog' = IF mpI % reportFrequency = 0
                THEN Append(mpLog, [msg |-> "completed", i |-> mpI])
                ELSE mpLog
    /\ mpPc' = "next"
    /\ UNCHANGED <<jobArgs, reportFrequency, mpTodo, mpQueue, mpI, mpYielded>>
    /\ UNCHANGED othersOfMap

\* line 28: the iterator is exhausted, the loop is left, the total is logged
MpReturn ==
    /\ mpPc = "next" /\ mpTodo = {} /\ mpQueue = <<>>
    /\ mpLog' = Append(mpLog, [msg |-> "total completed", i |-> mpI])
    /\ mpPc' = "returned"
    /\ UNCHANGED <<jobArgs, reportFrequency, mpTodo, mpQueue, mpI, mpYielded>>
    /\ UNCHANGED othersOfMap

(***************************************************************************)
(* The specifications: a call of cleanLightCurves (Spec), of cleanDataset  *)
(* (SpecDataset), of lcFilterBogus (SpecFilter), of                        *)
(* multiprocessMapGenerator (SpecMap).                                     *)
(***************************************************************************)
vars == <<clVars, fVars, dsVars, mpVars>>

CleanIdle ==
    /\ params = [transform |-> FALSE] /\ limit = INF /\ raw = <<>>
    /\ commitFrequency = 1 /\ clean = {} /\ cleanAtStart = {} /\ runs = 0
    /\ Fresh

Init == InitClean /\ FilterIdle /\ DatasetIdle /\ MapIdle
Next == Setup \/ Iterate \/ Finish
Spec == Init /\ [][Next]_vars

\* calls that the store may abort, and calls repeated after an abort
InitAbort == Init /\ Len(raw) <= MaxRows /\ ~params.transform
NextAbort == Setup \/ Iterate \/ Finish \/ StoreError \/ Rerun
SpecAbort == InitAbort /\ [][NextAbort]_vars

InitFilter == InitFilterCall /\ CleanIdle /\ DatasetIdle /\ MapIdle
NextFilter == CallFilter
SpecFilter == InitFilter /\ [][NextFilter]_vars

InitDs == InitDataset /\ CleanIdle /\ FilterIdle /\ MapIdle
NextDataset == DsSetup \/ DsIterate \/ DsFinish
SpecDataset == InitDs /\ [][NextDataset]_vars

\* the two cleaning loops: a call of cleanLightCurves over a raw table, or a
\* call of cleanDataset (beside a store whose raw table is empty)
InitLoops ==
    /\ FilterIdle /\ MapIdle
    /\ \/ InitClean /\ DatasetIdle
       \/ CleanIdle /\ InitDataset
NextLoops == Setup \/ Iterate \/ Finish \/ DsSetup \/ DsIterate \/ DsFinish
SpecLoops == InitLoops /\ [][NextLoops]_vars

InitMap == InitMapCall /\ CleanIdle /\ FilterIdle /\ DatasetIdle
NextMap == MpStart \/ WorkerCompletes \/ MpYield \/ MpResume \/ MpReturn
SpecMap == InitMap /\ [][NextMap]_vars

(***************************************************************************)
(* Claims.                                                                 *)
(***************************************************************************)

\* C1: a series whose raw length is below minLength (80) is rejected by
\* preprocessLc with INSUFFICIENT_INITIAL; neither the filter nor the outlier
\* reducer is applied to it, and bogusRemoved = outlierRemoved = 0.
C1_ShortSeriesShortCircuits ==
    (last.row # 0 /\ last.inLen < SUFFICIENT_LC_DATA) =>
        /\ last.ret = "return"
        /\ last.issue = INSUFFICIENT_DATA_REASON
        /\ last.outLen = 0
        /\ last.calls = <<>>
        /\ last.removedCounts[DATA_BOGUS_REMOVED] = 0
        /\ last.removedCounts[DATA_OUTLIER_REMOVED] = 0

\* a series of 79 samples, bogus and outlying ones among them, has been
\* rejected as too short and counted
C1_Witness ==
    /\ last.row # 0 /\ last.inLen = SUFFICIENT_LC_DATA - 1
    /\ last.issue = INSUFFICIENT_DATA_REASON
    /\ shortIssueCount = 1 /\ pc = "done"

\* C2: lcFilterBogus(S, R) retains the sample at index i iff neither value[i]
\* nor error[i] is a member of R; the result is the subsequence of S of those
\* samples, in order, each with its own timestamp, value and error.
C2_RetainsIffNotMember ==
    fPc = "returned" =>
        Samples(fOut) =
            SelectSeq(Samples(<<fArgs.mjds, fArgs.values, fArgs.errors>>),
                      LAMBDA t : /\ ~Member(t[2], fArgs.removes)
                                 /\ ~Member(t[3], fArgs.removes))

LoopCommits == SelectSeq(commitLog, LAMBDA c : c.where = "loop")
FlushCommits == SelectSeq(commitLog, LAMBDA c : c.where = "flush")

\* C3: a run that accepts n series with commit frequency f commits
\* floor(n / f) times inside the loop, the k-th time right after the insert
\* that makes insertCount k * f, and exactly once more after the loop.
C3_CommitSchedule ==
    /\ Len(LoopCommits) = insertCount \div commitFrequency
    /\ \A k \in 1..Len(LoopCommits) :
          /\ commitLog[k].where = "loop"
          /\ commitLog[k].at = k * commitFrequency
    /\ Len(FlushCommits) = (IF pc = "done" THEN 1 ELSE 0)
    /\ pc = "done" =>
          /\ commitLog[Len(commitLog)] =
                [at |-> insertCount, fetched |-> fetched, where |-> "flush"]
          /\ staged = <<>>

\* the batch scenario: 125 accepted, a commit every 50: two commits in the
\* loop and the final one
C3_Witness ==
    /\ pc = "done" /\ insertCount = 125 /\ commitFrequency = 50
    /\ Len(LoopCommits) = 2 /\ Len(commitLog) = 3

\* C4: under a finite limit L, with more than L records in the raw table, at
\* most L records are examined.
C4_AtMostLimitExamined ==
    (limit.finite /\ Len(raw) > limit.n) => fetched <= limit.n

\* C5: when an error raised inside the loop aborts the run, the final commit
\* is still performed: no staged insert is left uncommitted.
C5_AbortStillFlushes ==
    pc = "raised" => staged = <<>>

\* C6: every call of preprocessLc returns, either a series and no reason or
\* no series and one of the three reasons: that of the first checkpoint at
\* which the length is below minLength; all three passed, it is accepted.
C6_OneOutcomePerCall ==
    last.row # 0 =>
        LET l0 == last.inLen
            l1 == l0 - last.removedCounts[DATA_BOGUS_REMOVED]
            l2 == l1 - last.removedCounts[DATA_OUTLIER_REMOVED]
        IN  /\ last.ret = "return"
            /\ last.issue = (IF l0 < SUFFICIENT_LC_DATA THEN INSUFFICIENT_DATA_REASON
                             ELSE IF l1 < SUFFICIENT_LC_DATA THEN BOGUS_DATA_REASON
                             ELSE IF l2 < SUFFICIENT_LC_DATA THEN OUTLIERS_REASON
                             ELSE NoReason)
            /\ (last.issue = NoReason) <=> (last.outLen >= SUFFICIENT_LC_DATA)
            /\ last.issue # NoReason => last.outLen = 0

\* C7: the summary's rates are counts over the number of records examined in
\* the run.
C7_RatesOverExamined ==
    summary.emitted =>
        /\ summary.total = fetched
        /\ summary.pass = insertCount
        /\ summary.short = shortIssueCount
        /\ summary.bogus = bogusIssueCount
        /\ summary.outlier = outlierIssueCount

\* the records an uninterrupted call examines: all, or the first limit + 1
ExaminedRows ==
    IF limit.finite /\ limit.n + 1 < Len(raw) THEN limit.n + 1 ELSE Len(raw)

RECURSIVE CleanedFrom(_, _)
\* the clean table an uninterrupted call leaves, from record j on: the row
\* (id, label, blobs of the cleaned series) of every accepted record, put in
\* the place of any row of the same id
CleanedFrom(j, table) ==
    IF j > ExaminedRows THEN table
    ELSE LET r == raw[j]
             lcIn == deserLc(r[3], r[4], r[5])
             res == preprocessLc(lcIn[1], lcIn[2], lcIn[3], removes,
                                 stdLimit, errorLimit)
             b == serLc(res.lc[1], res.lc[2], res.lc[3])
         IN  IF res.ret = "return" /\ res.lc # <<>>
             THEN CleanedFrom(j + 1, {q \in table : q[1] # r[1]}
                                     \cup {<<r[1], r[2], b[1], b[2], b[3]>>})
             ELSE CleanedFrom(j + 1, table)

\* no committed row is lost by a step: its id stays in the clean table, and
\* a step that aborts the call leaves the clean table as it is
CommittedRemain ==
    /\ \A r \in clean : \E q \in clean' : q[1] = r[1]
    /\ pc' = "raised" => clean' = clean

\* C8: rows committed before an abort stay in the clean table, and a call
\* repeated from the start over the same raw table ends with the clean table
\* of a single uninterrupted call, one row per accepted record id.
C8_RerunConverges ==
    /\ [][CommittedRemain]_vars
    /\ [](pc = "done" =>
            /\ clean = CleanedFrom(1, cleanAtStart)
            /\ \A r \in clean, q \in clean : r[1] = q[1] => r = q)

\* a second call, after a first one that committed a row and was aborted,
\* has finished over a clean table that began with a stale row
C8_Witness ==
    /\ runs = 2 /\ pc = "done" /\ insertCount >= 1
    /\ cleanAtStart = {StaleRow} /\ StaleRow \notin clean

\* every sample of the record the latest call of preprocessLc was given has
\* its value or its error in the reject-set
AllSamplesRejected ==
    LET r == raw[last.row]
        lcIn == deserLc(r[3], r[4], r[5])
    IN \A x \in 1..Len(lcIn[1]) :
          PyIn(lcIn[2][x], removes) \/ PyIn(lcIn[3][x], removes)

\* C9: a series of at least minLength samples, all of them rejected by the
\* filter, is rejected with INSUFFICIENT_AFTER_FILTER and bogusRemoved equal
\* to its length; no error is raised and the run goes on.
C9_AllRejectedIsARejection ==
    (/\ last.row # 0 /\ ~params.transform
     /\ last.inLen >= SUFFICIENT_LC_DATA /\ AllSamplesRejected) =>
        /\ last.ret = "return"
        /\ last.issue = BOGUS_DATA_REASON
        /\ last.removedCounts[DATA_BOGUS_REMOVED] = last.inLen
        /\ pc # "raised"

\* C10: the reject-set handed to the filter is the caller's bogus values
\* together with the non-finite sentinels, whatever the caller configured
\* (here for cleanDataset; nothing, None or the empty set count as no values).
C10_RejectSetIsUnion ==
    dsPc \in {"loop", "done", "raised"} =>
        rm = (IF dsArgs.given /\ ~dsArgs.remove.isNone
              THEN dsArgs.remove.items ELSE {}) \cup REMOVE_SET

\* the clean table as the open connection sees it: the committed rows and,
\* over them, the rows staged in the transaction
StoreView(committed, pending) == Apply(committed, pending)

\* a step of cleanLightCurves that inserts leaves exactly one row under the id
\* of the raw row in hand, with that row's label and the blobs of the series
\* cleaned from it, and no other row touched; any other step touches no row
CleanKeepsIdentity ==
    LET before == StoreView(clean, staged)
        after == StoreView(clean', staged')
    IN  IF insertCount' = insertCount + 1
        THEN LET r == raw[fetched + 1]
                 lcIn == deserLc(r[3], r[4], r[5])
                 res == preprocessLc(lcIn[1], lcIn[2], lcIn[3], removes,
                                     stdLimit, errorLimit)
             IN  /\ \E q \in after : q[1] = r[1]
                 /\ \A q \in after : q[1] = r[1] =>
                       /\ q[2] = r[2]
                       /\ ~params.transform =>
                             <<q[3], q[4], q[5]>> =
                                serLc(res.lc[1], res.lc[2], res.lc[3])
                 /\ {q \in after : q[1] # r[1]} = {q \in before : q[1] # r[1]}
        ELSE pc' # "start" => after = before

\* a step of cleanDataset that accepts appends, to each of the four lists,
\* the entry of the input index in hand: its label and the three columns of
\* the series cleaned from it; any other step leaves the four lists alone
DatasetKeepsIndex ==
    /\ Len(_times') = Len(_classLabel')
    /\ Len(_magnitudes') = Len(_classLabel')
    /\ Len(_errors') = Len(_classLabel')
    /\ IF Len(_classLabel') # Len(_classLabel)
       THEN LET k == dsI + 1
                res == preprocessLc_pipeline(dsArgs.times[k], dsArgs.mags[k],
                            dsArgs.errors[k], rm, DEFAULT_STD_LIMIT,
                            DEFAULT_ERROR_LIMIT)
            IN  /\ dsI' = k
                /\ _classLabel' = Append(_classLabel, dsArgs.labels[k])
                /\ _times' = Append(_times, res.lc[1])
                /\ _magnitudes' = Append(_magnitudes, res.lc[2])
                /\ _errors' = Append(_errors, res.lc[3])
       ELSE UNCHANGED <<_classLabel, _times, _magnitudes, _errors>>

\* C11: an accepted series is written or returned with the id and the label
\* of the input record it was computed from: the row cleanLightCurves inserts
\* carries the raw row's id and label, and the k-th label, times, magnitudes
\* and errors cleanDataset returns come from one input index, in input order.
C11_IdentityCarriedThrough ==
    [][CleanKeepsIdentity /\ DatasetKeepsIndex]_vars

\* cleanDataset has returned the second of two series, the first rejected:
\* the first entry of each returned list comes from input index 2
C11_Witness ==
    /\ dsPc = "done" /\ Len(dsArgs.labels) = 2
    /\ dsArgs.labels[1] # dsArgs.labels[2]
    /\ _classLabel = <<dsArgs.labels[2]>>
    /\ Len(_times) = 1 /\ Len(_times[1]) >= SUFFICIENT_LC_DATA

\* C12: the counts preprocessLc reports are non-negative; when both stages
\* ran, bogusRemoved + outlierRemoved + the length of the surviving series is
\* the input length; over a run, bogusRemoved + outlierRemoved + the points
\* of the series rejected wholesale never exceed the points examined.
C12_DiscardAccounting ==
    /\ (last.row # 0 /\ last.ret = "return") =>
          LET b == last.removedCounts[DATA_BOGUS_REMOVED]
              o == last.removedCounts[DATA_OUTLIER_REMOVED]
          IN  /\ b >= 0 /\ o >= 0 /\ b + o <= last.inLen
              /\ Len(last.calls) < 2 => o = 0
              /\ Len(last.calls) < 1 => b = 0
              /\ (Len(last.calls) = 2 /\ last.issue = NoReason) =>
                    b + o + last.outLen = last.inLen
              /\ (Len(last.calls) = 2 /\ last.issue # NoReason) =>
                    last.inLen - b - o < SUFFICIENT_LC_DATA
    /\ points.bogusRemoved >= 0 /\ points.outlierRemoved >= 0
    /\ points.wholesale >= 0
    /\ points.bogusRemoved + points.outlierRemoved + points.wholesale
          <= points.examined

\* a run has finished in which a series was rejected whole and the latest one
\* was accepted after both stages had removed samples from it
C12_Witness ==
    /\ pc = "done" /\ last.ret = "return" /\ Len(last.calls) = 2
    /\ last.removedCounts[DATA_BOGUS_REMOVED] >= 1
    /\ last.removedCounts[DATA_OUTLIER_REMOVED] >= 1
    /\ last.outLen >= SUFFICIENT_LC_DATA
    /\ points.wholesale > 0

\* what a step does to the four counters of cleanLightCurves: none
\* decreases, and a step that ends an iteration adds one to exactly one
CleanCountsOne ==
    LET now == <<insertCount, shortIssueCount, bogusIssueCount, outlierIssueCount>>
        next == <<insertCount', shortIssueCount', bogusIssueCount',
                  outlierIssueCount'>>
    IN  /\ \A c \in 1..4 : next[c] >= now[c]
        /\ (fetched' = fetched + 1 /\ pc' # "raised") =>
              Cardinality({c \in 1..4 : next[c] = now[c] + 1}) = 1
        /\ fetched' = fetched => next = now

\* the same of cleanDataset, whose accepted count is len(_classLabel)
DatasetCountsOne ==
    LET now == <<Len(_classLabel), dsShortIssueCount, dsBogusIssueCount,
                 dsOutlierIssueCount>>
        next == <<Len(_classLabel'), dsShortIssueCount', dsBogusIssueCount',
                  dsOutlierIssueCount'>>
    IN  /\ \A c \in 1..4 : next[c] >= now[c]
        /\ dsI' = dsI + 1 =>
              Cardinality({c \in 1..4 : next[c] = now[c] + 1}) = 1
        /\ dsI' = dsI => next = now

\* C13: at the end of every iteration of either loop, accepted + short +
\* bogus + outlier is the number of records examined so far; each examined
\* record added one to exactly one of the four counters, and none decreases.
C13_CountersPartitionExamined ==
    /\ [](pc \in {"loop", "flush", "done"} =>
            insertCount + shortIssueCount + bogusIssueCount
                + outlierIssueCount = fetched)
    /\ [](dsPc \in {"loop", "done"} =>
            Len(_classLabel) + dsShortIssueCount + dsBogusIssueCount
                + dsOutlierIssueCount = dsI)
    /\ [][CleanCountsOne /\ DatasetCountsOne]_vars

\* a call of cleanLightCurves has finished over two records, one accepted
\* and one rejected for its bogus samples
C13_Witness ==
    /\ pc = "done" /\ fetched = 2
    /\ insertCount = 1 /\ bogusIssueCount = 1
    /\ shortIssueCount = 0 /\ outlierIssueCount = 0

\* C14: at the end of every iteration of cleanLightCurves the inserts staged
\* since the last commit number insertCount mod commitFrequency, fewer than
\* commitFrequency; once the call is done none is staged and the committed
\* inserts number insertCount.
C14_StagedIsCountModFrequency ==
    /\ pc \in {"loop", "flush", "raised"} =>
          /\ Len(staged) = insertCount % commitFrequency
          /\ Len(staged) < commitFrequency
          /\ Cardinality(clean \ cleanAtStart) = insertCount - Len(staged)
    /\ pc = "done" =>
          /\ Len(staged) = 0
          /\ Cardinality(clean \ cleanAtStart) = insertCount
          /\ commitLog[Len(commitLog)].at = insertCount

\* the batch scenario at the end of its last iteration: 125 inserts, a commit
\* every 50, the last 25 staged and not yet committed
C14_Witness ==
    /\ pc = "loop" /\ fetched = Len(raw)
    /\ insertCount = 125 /\ commitFrequency = 50 /\ Len(staged) = 25

ProgressLog == SelectSeq(mpLog, LAMBDA l : l.msg = "completed")
TotalLog == SelectSeq(mpLog, LAMBDA l : l.msg = "total completed")

\* C15: for n >= 0 jobs and any completion order, once the generator has
\* returned it has yielded the result of each job exactly once, logged a
\* progress report at each completion count that is a positive multiple of
\* reportFrequency and at no other, and logged n as the total completed.
C15_EachResultOnceAndTotal ==
    mpPc = "returned" =>
        LET n == Len(jobArgs) IN
        /\ Len(mpYielded) = n
        /\ \A j \in 1..n :
              Cardinality({k \in 1..Len(mpYielded) :
                              mpYielded[k] = func(jobArgs[j])}) = 1
        /\ ProgressLog = [k \in 1..(n \div reportFrequency) |->
                            [msg |-> "completed", i |-> k * reportFrequency]]
        /\ TotalLog = <<[msg |-> "total completed", i |-> n]>>
        /\ mpLog[Len(mpLog)] = [msg |-> "total completed", i |-> n]

====
